---- MODULE Spec2Model ----
(***************************************************************************)
(* Accounting CRM API (src/main.py): the entry lifecycle handlers          *)
(* create_entry, update_entry, submit_for_review, reviewer_action,         *)
(* approver_action and get_entry over the "accountingentry" collection.    *)
(*                                                                         *)
(* Each handler is an operator from the collection, the clock and the     *)
(* request to the collection it leaves, the response and the number of     *)
(* clock readings it took: FastAPI's validation of the request body        *)
(* against the pydantic payload class, then the handler body with every    *)
(* store call it makes.  Under Spec each action serves one whole request;   *)
(* under ConcSpec the callers' handlers run store call by store call.      *)
(* The database handle is taken to be configured (db is not None).         *)
(***************************************************************************)
EXTENDS Integers, Sequences, FiniteSets, TLC

VARIABLES store,   \* db["accountingentry"]: ObjectId -> document
          now,     \* the last value datetime.now(timezone.utc) returned
          edits,   \* field updates written so far
          req,     \* the request being answered
          resp,    \* the response to it: [kind, body]
          calls    \* the calls of concurrent callers: caller -> the call's progress

vars == <<store, now, edits, req, resp, calls>>

----------------------------------------------------------------------------
(* Bounds *)

MaxClock == 8        \* clock readings available
MaxEdits == 2        \* field updates written in one run

----------------------------------------------------------------------------
(* Values *)

None == <<>>                    \* Optional[...] = None
Some(v) == <<v>>
Opt(S) == {None} \cup {Some(v) : v \in S}

Statuses == {"draft", "submitted_for_review", "reentry_requested",
             "recheck_requested", "reviewed", "approved"}
CommentRoles == {"creator", "reviewer", "approver"}
Roles == {"creator", "reviewer", "approver", "blackadam"}
ReviewerRoles == {"reviewer", "blackadam"}
ApproverRoles == {"approver", "blackadam"}
ReviewerActions == {"mark_reviewed", "request_reentry"}
ApproverActions == {"approve", "request_rereview"}

\* request inputs
Titles == {"Rent", "Tax"}
Amounts == {0, 500}
Descriptions == {"memo"}
CommentTexts == {"", "see note"}
AnyAction == ReviewerActions \cup ApproverActions
SuppliedComments == <<[role |-> "approver", message |-> "imported", at |-> 0]>>

\* ObjectIds are 1, 2, ...; str(ObjectId) and ObjectId(str)
IdStr(n) == "oid" \o ToString(n)
EntryOids == {1}                 \* the documents the collection comes to hold
ObjectIds == EntryOids \cup {2}
EntryIdStrings == {IdStr(n) : n \in ObjectIds} \cup {"not-an-id"}

Invalid == 0
obj_id(id_str) ==
    IF \E n \in ObjectIds : IdStr(n) = id_str
    THEN CHOOSE n \in ObjectIds : IdStr(n) = id_str
    ELSE Invalid

\* datetime.isoformat()
isoformat(t) == <<"iso", t>>

\* bool(x) of an Optional[str]
Truthy(c) == c # None /\ c[1] # ""

serialize(oid, doc) ==
    [id          |-> IdStr(oid),
     title       |-> doc.title,
     amount      |-> doc.amount,
     description |-> doc.description,
     status      |-> doc.status,
     comments    |-> [i \in 1..Len(doc.comments) |->
                        [role    |-> doc.comments[i].role,
                         message |-> doc.comments[i].message,
                         at      |-> isoformat(doc.comments[i].at)]],
     frozen      |-> doc.frozen,
     created_at  |-> isoformat(doc.created_at),
     updated_at  |-> isoformat(doc.updated_at)]

Comment(role, message, at) == [role |-> role, message |-> message, at |-> at]

----------------------------------------------------------------------------
(* The document store *)

find_one(st, oid) == IF oid \in DOMAIN st THEN Some(st[oid]) ELSE None

\* "$set" written where "$push" was meant: the list is replaced
push_comment_set(st, oid, c) ==
    IF oid \in DOMAIN st
    THEN [st EXCEPT ![oid].comments = <<c>>]
    ELSE st

\* update_one(filter, {"$push": {"comments": c}})
push_comment(st, oid, c) ==
    IF oid \in DOMAIN st
    THEN [st EXCEPT ![oid].comments = Append(@, c)]
    ELSE st

\* update_one(filter, {"$set": updates})
set_fields(st, oid, updates) ==
    IF oid \in DOMAIN st
    THEN [st EXCEPT ![oid] = updates @@ @]
    ELSE st

\* database.create_document: dump the model, stamp it, insert it under a
\* fresh ObjectId and return str(inserted_id)
create_document(st, entry, t) ==
    LET oid == CHOOSE o \in EntryOids : o \notin DOMAIN st
    IN [store |-> (oid :> (entry @@ [created_at |-> t, updated_at |-> t])) @@ st,
        inserted_id |-> IdStr(oid)]

----------------------------------------------------------------------------
(* Requests and responses *)

NoBody == <<>>
NoFields == [title |-> None, amount |-> None, description |-> None]
Request(op, entry_id, role, action, comment, fields) ==
    [op |-> op, entry_id |-> entry_id, role |-> role, action |-> action,
     comment |-> comment, fields |-> fields]
Ok(body) == [kind |-> "OK", body |-> body]
HTTPException(kind) == [kind |-> kind, body |-> NoBody]

\* what a handler leaves: the collection, the response, the clock readings taken
Result(st, response, reads) == [store |-> st, resp |-> response, reads |-> reads]
Raise(st, kind) == Result(st, HTTPException(kind), 0)

\* the frozen check left out
IsFrozen_unchecked(doc) == FALSE
\* doc.get("frozen")
IsFrozen(doc) == doc.frozen

----------------------------------------------------------------------------
(* POST /api/entries *)

\* FastAPI's validation of the body against AccountingEntry
ValidEntry(entry) == entry.status \in Statuses

create_entry(st, t, entry) ==
    IF ~ValidEntry(entry) THEN Raise(st, "Unprocessable")
    ELSE LET made == create_document(st, entry, t + 1)
             oid == obj_id(made.inserted_id)
             doc == find_one(made.store, oid)
         IN Result(made.store, Ok(serialize(oid, doc[1])), 1)

----------------------------------------------------------------------------
(* GET /api/entries/{entry_id} *)

get_entry(st, t, entry_id) ==
    LET oid == obj_id(entry_id)
        doc == find_one(st, oid)
    IN IF oid = Invalid THEN Raise(st, "BadId")
       ELSE IF doc = None THEN Raise(st, "NotFound")
       ELSE Result(st, Ok(serialize(oid, doc[1])), 0)

----------------------------------------------------------------------------
(* PATCH /api/entries/{entry_id} *)

\* "if payload.amount:" written where "is not None" was meant
FieldUpdates_truthy(payload) ==
    LET title == IF payload.title # None THEN [title |-> payload.title[1]] ELSE <<>>
        amount == IF payload.amount # None /\ payload.amount[1] # 0
                  THEN [amount |-> payload.amount[1]] ELSE <<>>
        description == IF payload.description # None
                       THEN [description |-> payload.description] ELSE <<>>
    IN title @@ amount @@ description

\* the "updates" dict of update_entry, before updated_at is added
FieldUpdates(payload) ==
    LET title == IF payload.title # None THEN [title |-> payload.title[1]] ELSE <<>>
        amount == IF payload.amount # None THEN [amount |-> payload.amount[1]] ELSE <<>>
        description == IF payload.description # None
                       THEN [description |-> payload.description] ELSE <<>>
    IN title @@ amount @@ description

UpdatableStatuses == {"draft", "reentry_requested"}

\* updated_at written also when no field is supplied
update_entry_always_writes(st, t, entry_id, payload) ==
    LET oid == obj_id(entry_id)
        doc == find_one(st, oid)
        updates == FieldUpdates(payload)
    IN IF oid = Invalid THEN Raise(st, "BadId")
       ELSE IF doc = None THEN Raise(st, "NotFound")
       ELSE IF IsFrozen(doc[1]) THEN Raise(st, "Frozen")
       ELSE IF doc[1].status \notin UpdatableStatuses THEN Raise(st, "InvalidState")
       ELSE LET st1 == set_fields(st, oid, updates @@ [updated_at |-> t + 1])
            IN Result(st1, Ok(serialize(oid, st1[oid])), 1)

update_entry(st, t, entry_id, payload) ==
    LET oid == obj_id(entry_id)
        doc == find_one(st, oid)
        updates == FieldUpdates(payload)
    IN IF oid = Invalid THEN Raise(st, "BadId")
       ELSE IF doc = None THEN Raise(st, "NotFound")
       ELSE IF IsFrozen(doc[1]) THEN Raise(st, "Frozen")
       ELSE IF doc[1].status \notin UpdatableStatuses THEN Raise(st, "InvalidState")
       ELSE IF DOMAIN updates = {} THEN Result(st, Ok(serialize(oid, doc[1])), 0)
       ELSE LET st1 == set_fields(st, oid, updates @@ [updated_at |-> t + 1])
            IN Result(st1, Ok(serialize(oid, st1[oid])), 1)

----------------------------------------------------------------------------
(* PATCH /api/entries/{entry_id}/submit *)

SubmitRoles == {"creator", "blackadam"}
SubmittableStatuses == {"draft", "reentry_requested"}

submit_for_review(st, t, entry_id, payload) ==
    LET oid == obj_id(entry_id)
        doc == find_one(st, oid)
    IN IF oid = Invalid THEN Raise(st, "BadId")
       ELSE IF doc = None THEN Raise(st, "NotFound")
       ELSE IF IsFrozen(doc[1]) THEN Raise(st, "Frozen")
       ELSE IF payload.role \notin SubmitRoles THEN Raise(st, "Forbidden")
       ELSE IF doc[1].status \notin SubmittableStatuses THEN Raise(st, "InvalidState")
       ELSE LET updates == [status |-> "submitted_for_review", updated_at |-> t + 1]
                st1 == IF Truthy(payload.comment)
                       THEN push_comment(st, oid,
                                Comment("creator", payload.comment[1], t + 2))
                       ELSE st
                st2 == set_fields(st1, oid, updates)
            IN Result(st2, Ok(serialize(oid, st2[oid])),
                      IF Truthy(payload.comment) THEN 2 ELSE 1)

----------------------------------------------------------------------------
(* PATCH /api/entries/{entry_id}/review *)

\* FastAPI's validation of the body against ReviewerActionPayload
ValidReviewerPayload(payload) ==
    payload.role \in ReviewerRoles /\ payload.action \in ReviewerActions

ReviewableStatuses == {"submitted_for_review", "recheck_requested"}

\* request_reentry sending the entry back to draft
ReviewerStatus_draft(action) ==
    IF action = "mark_reviewed" THEN "reviewed" ELSE "draft"
ReviewerStatus(action) ==
    IF action = "mark_reviewed" THEN "reviewed" ELSE "reentry_requested"
ReviewerDefaultMsg(action) ==
    IF action = "mark_reviewed" THEN "Marked as reviewed" ELSE "Re-entry requested"
\* the comment labelled with the caller's declared role
ReviewerCommentRole_declared(payload) == payload.role
\* comment_role
ReviewerCommentRole(payload) == "reviewer"

\* payload.comment or default_msg
OrDefault(comment, default_msg) ==
    IF Truthy(comment) THEN comment[1] ELSE default_msg

reviewer_action(st, t, entry_id, payload) ==
    LET oid == obj_id(entry_id)
        doc == find_one(st, oid)
    IN IF ~ValidReviewerPayload(payload) THEN Raise(st, "Unprocessable")
       ELSE IF oid = Invalid THEN Raise(st, "BadId")
       ELSE IF doc = None THEN Raise(st, "NotFound")
       ELSE IF IsFrozen(doc[1]) THEN Raise(st, "Frozen")
       ELSE IF doc[1].status \notin ReviewableStatuses THEN Raise(st, "InvalidState")
       ELSE LET default_msg == ReviewerDefaultMsg(payload.action)
                updates == [status |-> ReviewerStatus(payload.action),
                            updated_at |-> t + 1]
                pushes == Truthy(payload.comment) \/ default_msg # ""
                st1 == IF pushes
                       THEN push_comment(st, oid,
                                Comment(ReviewerCommentRole(payload),
                                        OrDefault(payload.comment, default_msg),
                                        t + 2))
                       ELSE st
                st2 == set_fields(st1, oid, updates)
            IN Result(st2, Ok(serialize(oid, st2[oid])), IF pushes THEN 2 ELSE 1)

----------------------------------------------------------------------------
(* PATCH /api/entries/{entry_id}/approve *)

\* FastAPI's validation of the body against ApproverActionPayload
ValidApproverPayload(payload) ==
    payload.role \in ApproverRoles /\ payload.action \in ApproverActions

ApprovableStatuses == {"reviewed"}

\* request_rereview sending the entry back to draft
ApproverUpdates_to_draft(action) ==
    IF action = "approve"
    THEN [status |-> "approved", frozen |-> TRUE]
    ELSE [status |-> "draft"]
\* frozen set by both approver actions
ApproverUpdates_freezes(action) ==
    IF action = "approve"
    THEN [status |-> "approved", frozen |-> TRUE]
    ELSE [status |-> "recheck_requested", frozen |-> TRUE]
ApproverUpdates(action) ==
    IF action = "approve"
    THEN [status |-> "approved", frozen |-> TRUE]
    ELSE [status |-> "recheck_requested"]
\* the two default messages exchanged
ApproverDefaultMsg_swapped(action) ==
    IF action = "approve" THEN "Re-review requested" ELSE "Approved"
ApproverDefaultMsg(action) ==
    IF action = "approve" THEN "Approved" ELSE "Re-review requested"

\* the comment pushed before the entry's status is checked
approver_action_comment_first(st, t, entry_id, payload) ==
    LET oid == obj_id(entry_id)
        doc == find_one(st, oid)
        message == OrDefault(payload.comment, ApproverDefaultMsg(payload.action))
        st1 == push_comment(st, oid, Comment("approver", message, t + 2))
    IN IF ~ValidApproverPayload(payload) THEN Raise(st, "Unprocessable")
       ELSE IF oid = Invalid THEN Raise(st, "BadId")
       ELSE IF doc = None THEN Raise(st, "NotFound")
       ELSE IF IsFrozen(doc[1]) THEN Raise(st, "Frozen")
       ELSE IF doc[1].status \notin ApprovableStatuses THEN Raise(st1, "InvalidState")
       ELSE LET updates == ApproverUpdates(payload.action) @@ [updated_at |-> t + 1]
                st2 == set_fields(st1, oid, updates)
            IN Result(st2, Ok(serialize(oid, st2[oid])), 2)

approver_action(st, t, entry_id, payload) ==
    LET oid == obj_id(entry_id)
        doc == find_one(st, oid)
    IN IF ~ValidApproverPayload(payload) THEN Raise(st, "Unprocessable")
       ELSE IF oid = Invalid THEN Raise(st, "BadId")
       ELSE IF doc = None THEN Raise(st, "NotFound")
       ELSE IF IsFrozen(doc[1]) THEN Raise(st, "Frozen")
       ELSE IF doc[1].status \notin ApprovableStatuses THEN Raise(st, "InvalidState")
       ELSE LET updates == ApproverUpdates(payload.action) @@ [updated_at |-> t + 1]
                message == OrDefault(payload.comment,
                                     ApproverDefaultMsg(payload.action))
                st1 == push_comment(st, oid, Comment("approver", message, t + 2))
                st2 == set_fields(st1, oid, updates)
            IN Result(st2, Ok(serialize(oid, st2[oid])), 2)

----------------------------------------------------------------------------
(* The requests a client sends *)

\* AccountingEntry bodies: two that leave the workflow fields to their
\* defaults, and three that supply them
Defaults(title, amount, description) ==
    [title |-> title, amount |-> amount, description |-> description,
     status |-> "draft", comments |-> <<>>, frozen |-> FALSE]
EntryBodies ==
    {Defaults("Rent", 500, None),
     Defaults("Tax", 0, Some("memo")),
     [Defaults("Rent", 500, None) EXCEPT !.status = "approved"],
     [Defaults("Rent", 500, None) EXCEPT !.frozen = TRUE,
                                         !.comments = SuppliedComments],
     [Defaults("Rent", 500, None) EXCEPT !.status = "archived"]}
UpdateBodies ==
    [title : Opt(Titles), amount : Opt(Amounts), description : Opt(Descriptions),
     role : {"creator"}]
    \cup [title : {Some("Tax")}, amount : {None}, description : {None}, role : Roles]
RoleBodies ==
    [role : SubmitRoles, comment : Opt(CommentTexts)]
    \cup [role : Roles, comment : {None}]
ReviewerBodies ==
    [role : ReviewerRoles, action : ReviewerActions, comment : Opt(CommentTexts)]
    \cup [role : Roles, action : ReviewerActions, comment : {None}]
    \cup [role : ReviewerRoles, action : AnyAction, comment : {None}]
ApproverBodies ==
    [role : ApproverRoles, action : ApproverActions, comment : Opt(CommentTexts)]
    \cup [role : Roles, action : ApproverActions, comment : {None}]
    \cup [role : ApproverRoles, action : AnyAction, comment : {None}]

\* every body for the ids the collection comes to hold; a few bodies for the
\* id it never holds and for the malformed id
EntryIds == {IdStr(n) : n \in EntryOids}
Pick(entry_id, bodies, few) == IF entry_id \in EntryIds THEN bodies ELSE few

----------------------------------------------------------------------------
(* Serving one request *)

Init ==
    /\ store = <<>>
    /\ now = 0
    /\ edits = 0
    /\ req = Request("none", "", "", "", None, NoFields)
    /\ resp = Ok(NoBody)
    /\ calls = <<>>

Serve(request, r) ==
    /\ now + r.reads <= MaxClock
    /\ req' = request
    /\ store' = r.store
    /\ resp' = r.resp
    /\ now' = now + r.reads
    /\ UNCHANGED calls

CreateEntry(entry) ==
    /\ ValidEntry(entry) => EntryOids \ DOMAIN store # {}
    /\ Serve(Request("create", "", "", "", None,
                     [title |-> Some(entry.title), amount |-> Some(entry.amount),
                      description |-> entry.description]),
             create_entry(store, now, entry))
    /\ UNCHANGED edits

GetEntry(entry_id) ==
    /\ Serve(Request("get", entry_id, "", "", None, NoFields),
             get_entry(store, now, entry_id))
    /\ UNCHANGED edits

UpdateEntry(entry_id, payload) ==
    LET r == update_entry(store, now, entry_id, payload)
    IN /\ Serve(Request("update", entry_id, payload.role, "", None,
                        [title |-> payload.title, amount |-> payload.amount,
                         description |-> payload.description]), r)
       /\ edits + r.reads <= MaxEdits
       /\ edits' = edits + r.reads

SubmitForReview(entry_id, payload) ==
    /\ Serve(Request("submit", entry_id, payload.role, "", payload.comment, NoFields),
             submit_for_review(store, now, entry_id, payload))
    /\ UNCHANGED edits

ReviewerAction(entry_id, payload) ==
    /\ Serve(Request("review", entry_id, payload.role, payload.action,
                     payload.comment, NoFields),
             reviewer_action(store, now, entry_id, payload))
    /\ UNCHANGED edits

ApproverAction(entry_id, payload) ==
    /\ Serve(Request("approve", entry_id, payload.role, payload.action,
                     payload.comment, NoFields),
             approver_action(store, now, entry_id, payload))
    /\ UNCHANGED edits

Next ==
    \/ \E entry \in EntryBodies : CreateEntry(entry)
    \/ \E entry_id \in EntryIdStrings : GetEntry(entry_id)
    \/ \E entry_id \in EntryIdStrings :
          \E payload \in Pick(entry_id, UpdateBodies,
                              {[title |-> Some("Tax"), amount |-> None,
                                description |-> None, role |-> "creator"]}) :
             UpdateEntry(entry_id, payload)
    \/ \E entry_id \in EntryIdStrings :
          \E payload \in Pick(entry_id, RoleBodies,
                              {[role |-> "creator", comment |-> None]}) :
             SubmitForReview(entry_id, payload)
    \/ \E entry_id \in EntryIdStrings :
          \E payload \in Pick(entry_id, ReviewerBodies,
                              [role : {"reviewer", "creator"},
                               action : {"mark_reviewed"}, comment : {None}]) :
             ReviewerAction(entry_id, payload)
    \/ \E entry_id \in EntryIdStrings :
          \E payload \in Pick(entry_id, ApproverBodies,
                              [role : {"approver", "creator"},
                               action : {"approve"}, comment : {None}]) :
             ApproverAction(entry_id, payload)

Spec == Init /\ [][Next]_vars

----------------------------------------------------------------------------
(* Concurrent callers: each handler is a sequence of store calls
   (find_one, update_one $push, update_one $set, find_one) with nothing that
   keeps another caller's store calls from falling between them.  A step is
   one store call together with the handler's own code next to it. *)

Callers == {1, 2}

\* the calls the callers make, all on the entry the collection holds
ConcCalls ==
    [op : {"update"},
     payload : {[title |-> Some("Tax"), amount |-> None, description |-> None,
                 role |-> "creator"],
                [title |-> None, amount |-> None, description |-> None,
                 role |-> "creator"]}]
    \cup [op : {"submit"}, payload : [role : {"creator"}, comment : Opt({"see note"})]]
    \cup [op : {"review"},
          payload : [role : {"reviewer"}, action : ReviewerActions, comment : {None}]]
    \cup [op : {"approve"},
          payload : [role : {"approver"}, action : ApproverActions, comment : {None}]]

\* the second caller's calls
RaceCalls ==
    {call \in ConcCalls :
        /\ call.op = "submit" => call.payload.comment = None
        /\ call.op = "update" => call.payload.title # None}
CallsOf(p) == IF p = 1 THEN ConcCalls ELSE RaceCalls

\* the handler of an operation
Handle(op, st, t, entry_id, payload) ==
    CASE op = "update"  -> update_entry(st, t, entry_id, payload)
      [] op = "submit"  -> submit_for_review(st, t, entry_id, payload)
      [] op = "review"  -> reviewer_action(st, t, entry_id, payload)
      [] op = "approve" -> approver_action(st, t, entry_id, payload)

\* the "updates" dict of a handler, before updated_at is added
CallUpdates(op, payload) ==
    CASE op = "update"  -> FieldUpdates(payload)
      [] op = "submit"  -> [status |-> "submitted_for_review"]
      [] op = "review"  -> [status |-> ReviewerStatus(payload.action)]
      [] op = "approve" -> ApproverUpdates(payload.action)

\* the comment a handler pushes, before its "at" is read: None when it pushes none
CallComment(op, payload) ==
    CASE op = "submit" ->
           IF Truthy(payload.comment)
           THEN Some([role |-> "creator", message |-> payload.comment[1]])
           ELSE None
      [] op = "review" ->
           LET default_msg == ReviewerDefaultMsg(payload.action)
           IN IF Truthy(payload.comment) \/ default_msg # ""
              THEN Some([role |-> ReviewerCommentRole(payload),
                         message |-> OrDefault(payload.comment, default_msg)])
              ELSE None
      [] op = "approve" ->
           Some([role |-> "approver",
                 message |-> OrDefault(payload.comment,
                                       ApproverDefaultMsg(payload.action))])
      [] OTHER -> None

\* the status written before the comment
WriteOrder_set_first(pushes) == IF pushes THEN <<"set", "push">> ELSE <<"set">>
\* the update_one calls of a handler, in the order it issues them
WriteOrder(pushes) == IF pushes THEN <<"push", "set">> ELSE <<"set">>

\* an update that applies only while the entry has the status that was fetched
Filter_with_status(oid, doc) == ("_id" :> oid) @@ [status |-> doc.status]
\* an update that applies only to the version of the entry that was fetched
Filter_with_updated_at(oid, doc) == ("_id" :> oid) @@ [updated_at |-> doc.updated_at]
\* the filter of every update_one: {"_id": obj_id(entry_id)}
Filter(oid, doc) == ("_id" :> oid)

\* the filter selects a document of the collection
Matches(st, filter) ==
    /\ filter["_id"] \in DOMAIN st
    /\ \A k \in DOMAIN filter \ {"_id"} : st[filter["_id"]][k] = filter[k]

\* update_one(filter, update): nothing is written when no document matches
update_one_push(st, filter, c) ==
    IF Matches(st, filter) THEN push_comment(st, filter["_id"], c) ELSE st
update_one_set(st, filter, updates) ==
    IF Matches(st, filter) THEN set_fields(st, filter["_id"], updates) ELSE st

NoCall ==
    [pc |-> "idle", op |-> "", entry_id |-> "", payload |-> NoBody, seen |-> None,
     updates |-> <<>>, comment |-> None, todo |-> <<>>, kind |-> ""]

ConcInit ==
    /\ store = <<>>
    /\ now = 0
    /\ edits = 0
    /\ req = Request("none", "", "", "", None, NoFields)
    /\ resp = Ok(NoBody)
    /\ calls \in {[p \in S |-> NoCall] : S \in {{1}, Callers}}

\* find_one, the checks on the fetched document, and the updates dict
Fetch(p, entry_id, call) ==
    LET oid == obj_id(entry_id)
        doc == find_one(store, oid)
        kind == Handle(call.op, store, now, entry_id, call.payload).resp.kind
        updates == CallUpdates(call.op, call.payload)
        c == CallComment(call.op, call.payload)
        begun == [NoCall EXCEPT !.op = call.op, !.entry_id = entry_id,
                                !.payload = call.payload, !.seen = doc]
    IN /\ calls[p].pc \in {"idle", "done"}
       /\ IF kind # "OK" \/ DOMAIN updates = {}
          THEN /\ calls' = [calls EXCEPT ![p] = [NoCall EXCEPT !.pc = "done",
                                                               !.op = call.op,
                                                               !.kind = kind]]
               /\ UNCHANGED now
          ELSE /\ now + 1 <= MaxClock
               /\ now' = now + 1
               /\ calls' = [calls EXCEPT ![p] =
                              [begun EXCEPT !.pc = "writing",
                                            !.updates = updates @@ [updated_at |-> now + 1],
                                            !.comment = c,
                                            !.todo = WriteOrder(c # None)]]
       /\ UNCHANGED <<store, edits, req, resp>>

\* the Comment is built and pushed
Push(p) ==
    LET call == calls[p]
        oid == obj_id(call.entry_id)
    IN /\ call.pc = "writing" /\ call.todo # <<>> /\ Head(call.todo) = "push"
       /\ now + 1 <= MaxClock
       /\ now' = now + 1
       /\ store' = update_one_push(store, Filter(oid, call.seen[1]),
                                   Comment(call.comment[1].role,
                                           call.comment[1].message, now + 1))
       /\ calls' = [calls EXCEPT ![p].todo = Tail(@)]
       /\ UNCHANGED <<edits, req, resp>>

\* the updates dict is written
Set(p) ==
    LET call == calls[p]
        oid == obj_id(call.entry_id)
    IN /\ call.pc = "writing" /\ call.todo # <<>> /\ Head(call.todo) = "set"
       /\ store' = update_one_set(store, Filter(oid, call.seen[1]), call.updates)
       /\ calls' = [calls EXCEPT ![p].todo = Tail(@)]
       /\ UNCHANGED <<now, edits, req, resp>>

\* the entry is fetched again and returned
Return(p) ==
    LET call == calls[p]
    IN /\ call.pc = "writing" /\ call.todo = <<>>
       /\ find_one(store, obj_id(call.entry_id)) # None
       /\ calls' = [calls EXCEPT ![p] = [NoCall EXCEPT !.pc = "done",
                                                      !.op = call.op,
                                                      !.payload = call.payload,
                                                      !.kind = "OK"]]
       /\ UNCHANGED <<store, now, edits, req, resp>>

ConcNext ==
    \/ CreateEntry(Defaults("Rent", 500, None))
    \/ \E p \in DOMAIN calls : \E entry_id \in EntryIds : \E call \in CallsOf(p) :
          Fetch(p, entry_id, call)
    \/ \E p \in DOMAIN calls : Push(p)
    \/ \E p \in DOMAIN calls : Set(p)
    \/ \E p \in DOMAIN calls : Return(p)

ConcSpec == ConcInit /\ [][ConcNext]_vars

----------------------------------------------------------------------------
(* The specification's transition table (spec.md section 4.1) *)

Mutating == {"update", "submit", "review", "approve"}
Transitions == {"submit", "review", "approve"}

TableFrom(op) ==
    CASE op = "update"  -> {"draft", "reentry_requested"}
      [] op = "submit"  -> {"draft", "reentry_requested"}
      [] op = "review"  -> {"submitted_for_review", "recheck_requested"}
      [] op = "approve" -> {"reviewed"}

TableTo(op, action, from) ==
    CASE op = "update" -> from
      [] op = "submit" -> "submitted_for_review"
      [] op = "review" /\ action = "mark_reviewed" -> "reviewed"
      [] op = "review" /\ action = "request_reentry" -> "reentry_requested"
      [] op = "approve" /\ action = "approve" -> "approved"
      [] op = "approve" /\ action = "request_rereview" -> "recheck_requested"
      [] OTHER -> "none"

TableRoles(op) ==
    CASE op = "update"  -> Roles
      [] op = "submit"  -> {"creator", "blackadam"}
      [] op = "review"  -> {"reviewer", "blackadam"}
      [] op = "approve" -> {"approver", "blackadam"}

TableActions(op) ==
    CASE op = "review"  -> {"mark_reviewed", "request_reentry"}
      [] op = "approve" -> {"approve", "request_rereview"}
      [] OTHER -> {""}

TableDefault(action) ==
    CASE action = "mark_reviewed" -> "Marked as reviewed"
      [] action = "request_reentry" -> "Re-entry requested"
      [] action = "approve" -> "Approved"
      [] action = "request_rereview" -> "Re-review requested"
      [] OTHER -> ""

\* the request just served was a call of one of the table's operations, by a
\* role and with an action the table lists for it
TableCall(r) ==
    r.op \in Mutating /\ r.role \in TableRoles(r.op) /\ r.action \in TableActions(r.op)

IsPrefix(s, t) == Len(s) <= Len(t) /\ \A i \in 1..Len(s) : s[i] = t[i]
Last(s) == s[Len(s)]

\* the frozen flag agrees with the status, as after every approve
Consistent(doc) == doc.frozen <=> doc.status = "approved"

----------------------------------------------------------------------------
(* C1 *)

\* C1 as stated: every successful operation moves status along an edge of the
\* table, update_fields leaves it alone, a call from any other status fails
\* with InvalidState, and status is always one of the six states.  Stated for
\* calls the table lists (role and action) on entries whose frozen flag agrees
\* with their status.
C1_Original ==
    [][LET r == req'
           oid == obj_id(r.entry_id)
       IN /\ \A o \in DOMAIN store' : store'[o].status \in Statuses
          /\ (TableCall(r) /\ oid \in DOMAIN store /\ Consistent(store[oid])) =>
               /\ resp'.kind = "OK" =>
                    /\ store[oid].status \in TableFrom(r.op)
                    /\ store'[oid].status = TableTo(r.op, r.action, store[oid].status)
               /\ store[oid].status \notin TableFrom(r.op) =>
                    resp'.kind = "InvalidState"]_vars

\* C1 amended: every successful operation moves status along an edge of the
\* table and update_fields leaves it alone; a call from any other status fails
\* and changes nothing, with Frozen when the entry is frozen and with
\* InvalidState when it is not (for a role and an action the table lists for
\* the operation); status is always one of the six states.
C1_Transitions ==
    [][LET r == req'
           oid == obj_id(r.entry_id)
       IN /\ \A o \in DOMAIN store' : store'[o].status \in Statuses
          /\ (r.op \in Mutating /\ oid \in DOMAIN store) =>
               /\ resp'.kind = "OK" =>
                    /\ store[oid].status \in TableFrom(r.op)
                    /\ store'[oid].status = TableTo(r.op, r.action, store[oid].status)
               /\ store[oid].status \notin TableFrom(r.op) =>
                    /\ resp'.kind # "OK"
                    /\ store' = store
                    /\ TableCall(r) =>
                         resp'.kind = IF store[oid].frozen THEN "Frozen"
                                      ELSE "InvalidState"]_vars

\* a reviewer has marked the entry reviewed again after the approver sent it
\* back from reviewed to recheck_requested
C1_Witness ==
    /\ req.op = "review" /\ req.action = "mark_reviewed" /\ resp.kind = "OK"
    /\ 1 \in DOMAIN store
    /\ store[1].status = "reviewed"
    /\ \E i \in 1..Len(store[1].comments) :
          /\ store[1].comments[i].role = "approver"
          /\ store[1].comments[i].message = "Re-review requested"

----------------------------------------------------------------------------
(* C2 *)

\* C2: every stored entry has frozen = true exactly when its status is approved
C2_Original == \A o \in DOMAIN store : Consistent(store[o])

----------------------------------------------------------------------------
(* C3 *)

\* C3: whatever the create request carries, the created entry is stored and
\* returned with status draft, no comments and frozen = false, and with the
\* supplied title, amount and description
C3_Original ==
    (req.op = "create" /\ resp.kind = "OK") =>
        LET oid == obj_id(resp.body.id)
        IN /\ oid \in DOMAIN store
           /\ resp.body = serialize(oid, store[oid])
           /\ store[oid].status = "draft"
           /\ store[oid].comments = <<>>
           /\ store[oid].frozen = FALSE
           /\ Some(store[oid].title) = req.fields.title
           /\ Some(store[oid].amount) = req.fields.amount
           /\ store[oid].description = req.fields.description

----------------------------------------------------------------------------
(* C4 *)

\* C4: once an entry is frozen no operation changes any of its fields, and it
\* stays frozen
C4_FrozenImmutable ==
    [][\A o \in DOMAIN store :
          store[o].frozen => (o \in DOMAIN store' /\ store'[o] = store[o])]_vars

\* a mutating operation has been tried on an entry frozen by approve
C4_Witness ==
    /\ req.op \in Mutating
    /\ obj_id(req.entry_id) \in DOMAIN store
    /\ store[obj_id(req.entry_id)].frozen
    /\ store[obj_id(req.entry_id)].status = "approved"
    /\ Last(store[obj_id(req.entry_id)].comments).message = "Approved"
    /\ resp.kind # "OK"

----------------------------------------------------------------------------
(* C5 *)

\* C5: on an existing frozen entry every mutating operation fails with Frozen,
\* whatever the role and the action.  Stated for entries frozen by approve.
C5_Original ==
    [][LET r == req'
           oid == obj_id(r.entry_id)
       IN (r.op \in Mutating /\ oid \in DOMAIN store
           /\ store[oid].frozen /\ store[oid].status = "approved") =>
              resp'.kind = "Frozen"]_vars

----------------------------------------------------------------------------
(* C6 *)

\* C6: on an unfrozen entry a transition succeeds only with a role the table
\* lists for it, and a call with any other role fails with Forbidden and
\* changes nothing.  Stated for entries whose frozen flag agrees with their
\* status.
C6_Original ==
    [][LET r == req'
           oid == obj_id(r.entry_id)
       IN (r.op \in Transitions /\ oid \in DOMAIN store /\ ~store[oid].frozen
           /\ Consistent(store[oid])) =>
             /\ resp'.kind = "OK" => r.role \in TableRoles(r.op)
             /\ r.role \notin TableRoles(r.op) =>
                   (resp'.kind = "Forbidden" /\ store' = store)]_vars

----------------------------------------------------------------------------
(* C7 *)

\* C7: an operation that fails leaves every stored entry exactly as it was
C7_ErrorsDoNotMutate ==
    [][resp'.kind # "OK" => store' = store]_vars

\* an approver action has been rejected for the entry's status, and the entry
\* carries no comment
C7_Witness ==
    /\ req.op = "approve" /\ resp.kind = "InvalidState"
    /\ store[obj_id(req.entry_id)].status = "submitted_for_review"
    /\ store[obj_id(req.entry_id)].comments = <<>>

----------------------------------------------------------------------------
(* C8 *)

\* C8: after every operation each entry's previous comments are a prefix of its
\* comments, and update_fields leaves comments as they were
C8_CommentsAppendOnly ==
    [][\A o \in DOMAIN store :
          /\ o \in DOMAIN store'
          /\ IsPrefix(store[o].comments, store'[o].comments)
          /\ req'.op = "update" => store'[o].comments = store[o].comments]_vars

\* a transition has appended a third comment
C8_Witness ==
    /\ req.op \in Transitions /\ resp.kind = "OK"
    /\ Len(store[obj_id(req.entry_id)].comments) = 3

----------------------------------------------------------------------------
(* C9 *)

\* what update_fields is to leave in the entry
Updated(doc, fields, after) ==
    /\ after.title = IF fields.title # None THEN fields.title[1] ELSE doc.title
    /\ after.amount = IF fields.amount # None THEN fields.amount[1] ELSE doc.amount
    /\ after.description =
          IF fields.description # None THEN fields.description ELSE doc.description
    /\ after.status = doc.status
    /\ after.comments = doc.comments
    /\ after.frozen = doc.frozen
    /\ after.created_at = doc.created_at

\* C9 as stated: update_fields succeeds exactly when the entry exists, is not
\* frozen and is draft or reentry_requested, whatever the role; in every other
\* status it fails with InvalidState; a success sets only the supplied fields.
\* Stated for entries whose frozen flag agrees with their status.
C9_Original ==
    [][LET r == req'
           oid == obj_id(r.entry_id)
       IN r.op = "update" =>
            /\ resp'.kind = "OK" <=>
                 /\ oid \in DOMAIN store
                 /\ ~store[oid].frozen
                 /\ store[oid].status \in TableFrom("update")
            /\ (oid \in DOMAIN store /\ Consistent(store[oid])
                /\ store[oid].status \notin TableFrom("update")) =>
                 resp'.kind = "InvalidState"
            /\ resp'.kind = "OK" => Updated(store[oid], r.fields, store'[oid])]_vars

\* C9 amended: update_fields succeeds exactly when the entry exists, is not
\* frozen and is draft or reentry_requested, whatever the role; in every other
\* status it fails, with Frozen when the entry is frozen and with InvalidState
\* when it is not; a success sets only the supplied fields and leaves status,
\* comments and frozen unchanged.
C9_UpdateFields ==
    [][LET r == req'
           oid == obj_id(r.entry_id)
       IN r.op = "update" =>
            /\ resp'.kind = "OK" <=>
                 /\ oid \in DOMAIN store
                 /\ ~store[oid].frozen
                 /\ store[oid].status \in TableFrom("update")
            /\ (oid \in DOMAIN store /\ store[oid].status \notin TableFrom("update")) =>
                 resp'.kind = IF store[oid].frozen THEN "Frozen" ELSE "InvalidState"
            /\ resp'.kind = "OK" => Updated(store[oid], r.fields, store'[oid])]_vars

\* a caller declaring the approver role has set only the title of an entry
\* sent back for re-entry
C9_Witness ==
    /\ req.op = "update" /\ req.role = "approver" /\ resp.kind = "OK"
    /\ req.fields = [title |-> Some("Tax"), amount |-> None, description |-> None]
    /\ store[obj_id(req.entry_id)].status = "reentry_requested"
    /\ store[obj_id(req.entry_id)].title = "Tax"
    /\ store[obj_id(req.entry_id)].amount = 0
    /\ store[obj_id(req.entry_id)].description = Some("memo")

----------------------------------------------------------------------------
(* C10 *)

\* C10: a successful reviewer action appends exactly one comment with role
\* reviewer and a successful approver action exactly one with role approver,
\* whatever role made the call; its message is the caller's text, or the
\* transition's default when the caller gives none.  A successful
\* submit_for_review appends one comment with role creator when the caller
\* gives text, and none otherwise.
C10_CommentRule ==
    [][LET r == req'
           oid == obj_id(r.entry_id)
           text == r.comment # None /\ r.comment[1] # ""
       IN (r.op \in Transitions /\ resp'.kind = "OK") =>
            IF r.op = "submit" /\ ~text
            THEN store'[oid].comments = store[oid].comments
            ELSE /\ Len(store'[oid].comments) = Len(store[oid].comments) + 1
                 /\ IsPrefix(store[oid].comments, store'[oid].comments)
                 /\ Last(store'[oid].comments).role =
                       (CASE r.op = "submit" -> "creator"
                          [] r.op = "review" -> "reviewer"
                          [] r.op = "approve" -> "approver")
                 /\ Last(store'[oid].comments).message =
                       (IF text THEN r.comment[1] ELSE TableDefault(r.action))]_vars

\* the superuser has requested re-entry without a comment
C10_Witness ==
    /\ req.op = "review" /\ req.role = "blackadam" /\ req.action = "request_reentry"
    /\ req.comment = None /\ resp.kind = "OK"
    /\ Last(store[obj_id(req.entry_id)].comments) \in
          [role : {"reviewer"}, message : {"Re-entry requested"}, at : 0..MaxClock]

----------------------------------------------------------------------------
(* C11 *)

\* the entry after each step of the happy path
Happy1(doc) == doc.status = "draft" /\ doc.comments = <<>> /\ ~doc.frozen
Happy2(doc) == doc.status = "submitted_for_review" /\ doc.comments = <<>> /\ ~doc.frozen
Happy3(doc) ==
    /\ doc.status = "reviewed" /\ ~doc.frozen
    /\ Len(doc.comments) = 1
    /\ doc.comments[1].role = "reviewer"
    /\ doc.comments[1].message = "Marked as reviewed"
Happy4(doc) ==
    /\ doc.status = "approved" /\ doc.frozen = TRUE
    /\ Len(doc.comments) = 2
    /\ doc.comments[1].role = "reviewer"
    /\ doc.comments[1].message = "Marked as reviewed"
    /\ doc.comments[2].role = "approver"
    /\ doc.comments[2].message = "Approved"

\* C11: an entry created with title and amount only is a draft without
\* comments; from there submit_for_review as creator, mark_reviewed as reviewer
\* and approve as approver, each without a comment, all succeed, and the entry
\* is then fetched with status approved, frozen = true and exactly two comments:
\* reviewer "Marked as reviewed", then approver "Approved".
C11_HappyPath ==
    [][LET r == req'
           oid == obj_id(r.entry_id)
           plain == r.comment = None
       IN /\ store = <<>> =>
               \A title \in Titles, amount \in Amounts :
                  LET made == create_entry(store, now, Defaults(title, amount, None))
                  IN made.resp.kind = "OK" /\ \A o \in DOMAIN made.store : Happy1(made.store[o])
          /\ oid \in DOMAIN store =>
               /\ (Happy1(store[oid]) /\ r.op = "submit" /\ r.role = "creator" /\ plain) =>
                     (resp'.kind = "OK" /\ Happy2(store'[oid]))
               /\ (Happy2(store[oid]) /\ r.op = "review" /\ r.role = "reviewer"
                   /\ r.action = "mark_reviewed" /\ plain) =>
                     (resp'.kind = "OK" /\ Happy3(store'[oid]))
               /\ (Happy3(store[oid]) /\ r.op = "approve" /\ r.role = "approver"
                   /\ r.action = "approve" /\ plain) =>
                     (resp'.kind = "OK" /\ Happy4(store'[oid]))
               /\ (Happy4(store[oid]) /\ r.op = "get") =>
                     (resp'.kind = "OK" /\ Happy4(resp'.body))]_vars

\* the entry {title: "Rent", amount: 500} is fetched after create, submit,
\* mark_reviewed and approve, which took the clock readings 1 to 6
C11_Witness ==
    /\ req.op = "get" /\ resp.kind = "OK"
    /\ Happy4(resp.body)
    /\ resp.body.title = "Rent" /\ resp.body.amount = 500
    /\ resp.body.description = None
    /\ resp.body.created_at = isoformat(1)
    /\ resp.body.comments[1].at = isoformat(4)
    /\ resp.body.comments[2].at = isoformat(6)

----------------------------------------------------------------------------
(* C12 *)

\* C12: every successful transition and every successful update_fields with a
\* field supplied sets updated_at to the clock reading it takes; update_fields
\* with no field returns the entry as it is, writes nothing and leaves
\* updated_at; a failed call leaves updated_at.
C12_UpdatedAt ==
    [][LET r == req'
           oid == obj_id(r.entry_id)
           noop == r.op = "update" /\ r.fields = NoFields
       IN (r.op \in Mutating /\ oid \in DOMAIN store) =>
            /\ (resp'.kind = "OK" /\ ~noop) =>
                  /\ now' > now
                  /\ store'[oid].updated_at = now + 1
                  /\ store'[oid].updated_at > store[oid].updated_at
            /\ (resp'.kind = "OK" /\ noop) =>
                  /\ store' = store
                  /\ now' = now
                  /\ resp'.body = serialize(oid, store[oid])
            /\ resp'.kind # "OK" =>
                  store'[oid].updated_at = store[oid].updated_at]_vars

\* update_fields without a field has answered for an entry sent back for
\* re-entry, whose updated_at is older than the clock
C12_Witness ==
    /\ req.op = "update" /\ req.fields = NoFields /\ resp.kind = "OK"
    /\ store[obj_id(req.entry_id)].status = "reentry_requested"
    /\ store[obj_id(req.entry_id)].updated_at < now
    /\ resp.body.updated_at = isoformat(store[obj_id(req.entry_id)].updated_at)

----------------------------------------------------------------------------
(* C13 *)

\* C13: there is no direct status write: an entry enters the collection as a
\* draft, and its status changes only along an edge of the table, so that an
\* approved entry was reviewed before and a reviewed one submitted before
C13_Original ==
    [][\A o \in DOMAIN store' :
          IF o \notin DOMAIN store
          THEN store'[o].status = "draft"
          ELSE store'[o].status # store[o].status =>
                 \E op \in Transitions : \E action \in TableActions(op) :
                    /\ store[o].status \in TableFrom(op)
                    /\ store'[o].status = TableTo(op, action, store[o].status)]_vars

----------------------------------------------------------------------------
(* C16 *)

\* C16: an entry that has left draft never returns to draft; request_reentry
\* leads to reentry_requested and request_rereview to recheck_requested, with
\* frozen still false
C16_NeverBackToDraft ==
    [][LET r == req'
           oid == obj_id(r.entry_id)
       IN /\ \A o \in DOMAIN store :
                store[o].status # "draft" => store'[o].status # "draft"
          /\ (resp'.kind = "OK" /\ r.action = "request_reentry") =>
                (store'[oid].status = "reentry_requested" /\ ~store'[oid].frozen)
          /\ (resp'.kind = "OK" /\ r.action = "request_rereview") =>
                (store'[oid].status = "recheck_requested" /\ ~store'[oid].frozen)]_vars

\* the approver has sent a reviewed entry back for re-review
C16_Witness ==
    /\ req.op = "approve" /\ req.action = "request_rereview" /\ resp.kind = "OK"
    /\ store[obj_id(req.entry_id)].status = "recheck_requested"
    /\ ~store[obj_id(req.entry_id)].frozen

----------------------------------------------------------------------------
(* C19 *)

\* C19: a successful transition leaves title, amount, description and id as
\* they were; approve sets frozen and the other four transitions leave it
C19_TransitionsKeepContent ==
    [][LET r == req'
           oid == obj_id(r.entry_id)
       IN (r.op \in Transitions /\ resp'.kind = "OK") =>
            /\ DOMAIN store' = DOMAIN store
            /\ resp'.body.id = r.entry_id
            /\ store'[oid].title = store[oid].title
            /\ store'[oid].amount = store[oid].amount
            /\ store'[oid].description = store[oid].description
            /\ store'[oid].created_at = store[oid].created_at
            /\ store'[oid].frozen =
                  IF r.op = "approve" /\ r.action = "approve"
                  THEN TRUE ELSE store[oid].frozen]_vars

\* an entry with a description has been sent back for re-review
C19_Witness ==
    /\ req.op = "approve" /\ req.action = "request_rereview" /\ resp.kind = "OK"
    /\ store[obj_id(req.entry_id)].title = "Tax"
    /\ store[obj_id(req.entry_id)].amount = 0
    /\ store[obj_id(req.entry_id)].description = Some("memo")
    /\ store[obj_id(req.entry_id)].frozen = FALSE

----------------------------------------------------------------------------
(* C20 *)

\* some transition by some role succeeds on the entry
SomeTransitionSucceeds(o) ==
    \/ \E payload \in RoleBodies :
          submit_for_review(store, now, IdStr(o), payload).resp.kind = "OK"
    \/ \E payload \in ReviewerBodies :
          reviewer_action(store, now, IdStr(o), payload).resp.kind = "OK"
    \/ \E payload \in ApproverBodies :
          approver_action(store, now, IdStr(o), payload).resp.kind = "OK"

\* C20: every entry that is not frozen has a transition that some role can
\* perform successfully; only frozen entries are stuck
C20_Original ==
    \A o \in DOMAIN store : ~store[o].frozen => SomeTransitionSucceeds(o)

----------------------------------------------------------------------------
(* Steps of concurrent calls *)

\* caller p's call has just issued its update_one of the given kind
Wrote(p, kind) ==
    /\ calls[p].pc = "writing" /\ calls'[p].pc = "writing"
    /\ calls[p].todo # <<>>
    /\ Head(calls[p].todo) = kind
    /\ calls'[p].todo = Tail(calls[p].todo)

\* both callers' calls have returned the entry
BothReturned(op) ==
    /\ DOMAIN calls = Callers
    /\ \A p \in Callers : calls[p].pc = "done" /\ calls[p].kind = "OK" /\ calls[p].op = op

----------------------------------------------------------------------------
(* C14 *)

\* C14: with concurrent callers, in every state of every interleaving of the
\* store calls, a frozen entry has status approved, and no field of an entry
\* changes once its frozen flag is set
C14_Original ==
    [][\A o \in DOMAIN store :
          /\ store[o].frozen => store[o].status = "approved"
          /\ store'[o].frozen => store'[o].status = "approved"
          /\ store[o].frozen => store'[o] = store[o]]_vars

----------------------------------------------------------------------------
(* C15 *)

\* C15: a call validates the snapshot it fetched and nothing else: its writes
\* are applied to whatever the entry has become, the fields they set hold right
\* after its $set whoever wrote before (the last writer wins), and the call
\* returns successfully; so two calls that fetched the same snapshot are both
\* accepted although the handler would reject the second after the first.
C15_LastWriterWins ==
    [][\A p \in DOMAIN calls :
          LET call == calls[p]
              oid == obj_id(call.entry_id)
          IN /\ (call.pc \in {"idle", "done"} /\ calls'[p].pc = "writing") =>
                  /\ calls'[p].seen = find_one(store, obj_id(calls'[p].entry_id))
                  /\ calls'[p].seen[1].status \in TableFrom(calls'[p].op)
                  /\ ~calls'[p].seen[1].frozen
             /\ Wrote(p, "set") =>
                  \A k \in DOMAIN call.updates : store'[oid][k] = call.updates[k]
             /\ (call.pc = "writing" /\ calls'[p].pc = "done") =>
                  calls'[p].kind = "OK"
             /\ \A q \in DOMAIN calls \ {p} :
                  (/\ call.pc = "writing" /\ calls[q].pc = "writing"
                   /\ call.op \in Transitions
                   /\ calls[q].seen[1].status = call.seen[1].status) =>
                     Handle(calls[q].op, set_fields(store, oid, call.updates), now,
                            calls[q].entry_id, calls[q].payload).resp.kind # "OK"]_vars

\* approve and request_rereview were both accepted from one reviewed entry:
\* both comments follow the reviewer's, and the entry is frozen with the
\* status of the call that wrote last
C15_Witness ==
    /\ BothReturned("approve")
    /\ calls[1].payload.action # calls[2].payload.action
    /\ \A o \in DOMAIN store :
          /\ store[o].status = "recheck_requested"
          /\ store[o].frozen = TRUE
          /\ Len(store[o].comments) = 3
          /\ store[o].comments[2].message = "Approved"
          /\ store[o].comments[3].message = "Re-review requested"

----------------------------------------------------------------------------
(* C17 *)

\* C17: in every interleaving each $push appends its one comment to the list
\* as it is at that moment, and no other store call changes the list: no
\* comment is overwritten or dropped, whatever happens to the status.
C17_CommentsNeverLost ==
    [][\A o \in DOMAIN store :
          LET before == store[o].comments
              after == store'[o].comments
              pushing == {p \in DOMAIN calls : Wrote(p, "push")}
          IN /\ IsPrefix(before, after)
             /\ pushing = {} => after = before
             /\ \A p \in pushing :
                   /\ obj_id(calls[p].entry_id) = o
                   /\ after = Append(before, Comment(calls[p].comment[1].role,
                                                     calls[p].comment[1].message,
                                                     now'))]_vars

\* mark_reviewed and request_reentry were both accepted from one submitted
\* entry: the status of the first writer is overwritten, both comments are kept
C17_Witness ==
    /\ BothReturned("review")
    /\ \A o \in DOMAIN store :
          /\ store[o].status = "reviewed"
          /\ Len(store[o].comments) = 2
          /\ store[o].comments[1].message = "Marked as reviewed"
          /\ store[o].comments[2].message = "Re-entry requested"

----------------------------------------------------------------------------
(* C18 *)

\* C18: a transition issues its $push and then its $set as two store calls.
\* With a single writer, in every state a fetch can see while the call runs:
\* once the status has changed, the call's comment is the last of the list;
\* between the two calls the comment is there while status and frozen are
\* still those fetched.
C18_CommentBeforeStatus ==
    \A p \in DOMAIN calls :
       (DOMAIN calls = {p} /\ calls[p].pc = "writing" /\ calls[p].op \in Transitions) =>
          LET call == calls[p]
              doc == store[obj_id(call.entry_id)]
              seen == call.seen[1]
              commented ==
                 /\ Len(doc.comments) = Len(seen.comments) + 1
                 /\ IsPrefix(seen.comments, doc.comments)
                 /\ Last(doc.comments).role = call.comment[1].role
                 /\ Last(doc.comments).message = call.comment[1].message
          IN /\ doc.status \in {seen.status, call.updates.status}
             /\ call.updates.status # seen.status
             /\ (doc.status # seen.status /\ call.comment # None) => commented
             /\ (call.todo = <<"set">> /\ call.comment # None) =>
                   /\ commented
                   /\ doc.status = seen.status
                   /\ doc.frozen = seen.frozen
                   /\ ~doc.frozen
             /\ call.todo = <<>> =>
                   \A k \in DOMAIN call.updates : doc[k] = call.updates[k]

\* the single caller's approve has pushed "Approved" and not yet written the
\* status: a fetch returns the comment with status reviewed and frozen false
C18_Witness ==
    /\ DOMAIN calls = {1}
    /\ calls[1].pc = "writing" /\ calls[1].todo = <<"set">>
    /\ calls[1].op = "approve" /\ calls[1].payload.action = "approve"
    /\ LET fetched == get_entry(store, now, calls[1].entry_id).resp.body
       IN /\ fetched.status = "reviewed"
          /\ fetched.frozen = FALSE
          /\ fetched.comments[Len(fetched.comments)].message = "Approved"
          /\ fetched.comments[Len(fetched.comments)].role = "approver"

====
